---- MODULE Spec2Model ----
(***************************************************************************)
(* Event delegation of the runtime-html package: ListenerTracker,          *)
(* DelegateSubscription and EventManager of observation/event-manager.ts.  *)
(* Objects live in heaps (sequences indexed by the object's identity), so  *)
(* a subscription keeps its tracker and its lookup record after the        *)
(* manager has dropped them.                                               *)
(* Further: the au-slot custom element and the ProjectionProvider of       *)
(* resources/custom-elements/au-slot.js, the EventSubscriber of            *)
(* event-manager.ts and the With template controller of                    *)
(* templating/resources/with.ts. Each part has its own variables and its   *)
(* own specification.                                                      *)
(***************************************************************************)
EXTENDS Integers, Sequences, FiniteSets, TLC

\* Bounds of the model.
MaxSubs == 2            \* addEventListener calls in one behaviour
MaxDisposeCalls == 2    \* dispose() calls on one subscription

\* The host document: doc is the root, R its child, T and B children of R.
\* Listeners are delegated on doc for the targets R, T and B.
Publishers == {"doc"}
Targets == {"R", "T", "B"}
EventNames == {"click", "input"}
\* Listener "stop" sets event.cancelBubble, listener "f" leaves it alone.
Listeners == {"f", "stop"}
\* The options argument of addEventListener: omitted, { capture: false },
\* { capture: true }.
OptionArgs == {"omitted", "bubble", "capture"}

Undefined == "undefined"
EmptyMap == [x \in {} |-> 0]

VARIABLES
    trackerMaps,   \* EventManager.trackerMaps: eventName -> (publisher -> tracker)
    trackers,      \* heap of ListenerTracker objects
    lookupRecs,    \* heap of lookup records (eventName -> listener | undefined)
    subs,          \* heap of DelegateSubscription objects
    native,        \* the host's listener list: entries attached on publishers
    nativeCalls,   \* per tracker: calls made to publisher.add/removeEventListener
    hist,          \* per subscription: the arguments it was created with, dispose() calls
    last,          \* the dispatch just made, when the latest call was one
    slot,          \* the AuSlot: outerScope, hostScope, whether it still has its view
    view,          \* the AuSlot's view: activation state, arguments of the latest activate
    boundParent,   \* $controller.scope.parentScope at the latest binding() of the AuSlot
    projectionMap, \* the WeakMap of au-slot.js: instruction -> RegisteredProjections
    everRegistered, \* the instructions some registerProjections call included
    esub,          \* the EventSubscriber: events, target, handler
    domListeners,  \* the listeners the EventSubscriber's dom holds: node, event, listener
    withAttr,      \* the With controller: whether it is bound, $scope, value
    child          \* With's $child view: whether it is bound, the latest $bind or $unbind

emVars == <<trackerMaps, trackers, lookupRecs, subs, native, nativeCalls, hist,
            last>>
slotVars == <<slot, view, boundParent>>
projVars == <<projectionMap, everRegistered>>
esubVars == <<esub, domListeners>>
\* What the calls on the event manager leave alone.
withVars == <<withAttr, child>>
otherVars == <<slotVars, projVars, esubVars, withVars>>

vars == <<emVars, slotVars, projVars, esubVars, withVars>>

\* The part of the state the methods of ListenerTracker read and write.
St == [trackers |-> trackers, lookupRecs |-> lookupRecs, native |-> native,
       nativeCalls |-> nativeCalls]

Commit(st) ==
    /\ trackers' = st.trackers
    /\ lookupRecs' = st.lookupRecs
    /\ native' = st.native
    /\ nativeCalls' = st.nativeCalls

----------------------------------------------------------------------------
\* The host DOM.

Parent(n) == CASE n = "T" -> "R" [] n = "B" -> "R" [] n = "R" -> "doc" [] OTHER -> "none"

RECURSIVE composedPath(_)
composedPath(n) == IF n = "none" THEN <<>> ELSE <<n>> \o composedPath(Parent(n))

RECURSIVE reverse(_)
reverse(s) == IF s = <<>> THEN <<>> ELSE reverse(Tail(s)) \o <<Head(s)>>

\* options.capture === true, for the options a tracker was constructed with
\* (an omitted argument takes defaultOptions).
OptionsCapture(arg) == arg = "capture"

NativeEntry(st, t) ==
    [publisher |-> st.trackers[t].publisher, type |-> st.trackers[t].eventName,
     callback |-> t, capture |-> st.trackers[t].capture]

\* publisher.addEventListener(eventName, handleEvent, options): the host keeps
\* one entry per (type, callback, capture).
DomAddEventListener(st, t) ==
    [st EXCEPT !.native = @ \cup {NativeEntry(st, t)},
               !.nativeCalls[t].add = @ + 1]

DomRemoveEventListener(st, t) ==
    [st EXCEPT !.native = @ \ {NativeEntry(st, t)},
               !.nativeCalls[t].remove = @ + 1]

----------------------------------------------------------------------------
\* ListenerTracker

NewTracker(publisher, eventName, arg) ==
    [publisher |-> publisher, eventName |-> eventName,
     capture |-> OptionsCapture(arg), count |-> 0,
     captureLookups |-> EmptyMap, bubbleLookups |-> EmptyMap]

\* increment() attaching on every call.
Increment_AlwaysAttach(st, t) ==
    DomAddEventListener([st EXCEPT !.trackers[t].count = @ + 1], t)

ListenerTracker_increment(st, t) ==
    LET st1 == [st EXCEPT !.trackers[t].count = @ + 1]
    IN  IF st1.trackers[t].count = 1 THEN DomAddEventListener(st1, t) ELSE st1

ListenerTracker_decrement(st, t) ==
    LET st1 == [st EXCEPT !.trackers[t].count = @ - 1]
    IN  IF st1.trackers[t].count = 0 THEN DomRemoveEventListener(st1, t) ELSE st1

\* dispose() detaching without resetting the count.
Dispose_KeepCount(st, t) ==
    LET st1 == IF st.trackers[t].count > 0 THEN DomRemoveEventListener(st, t) ELSE st
    IN  [st1 EXCEPT !.trackers[t].captureLookups = EmptyMap,
                    !.trackers[t].bubbleLookups = EmptyMap]

\* dispose() guarding on count > 1.
Dispose_GuardOff(st, t) ==
    LET st1 == IF st.trackers[t].count > 1
               THEN DomRemoveEventListener([st EXCEPT !.trackers[t].count = 0], t)
               ELSE st
    IN  [st1 EXCEPT !.trackers[t].captureLookups = EmptyMap,
                    !.trackers[t].bubbleLookups = EmptyMap]

ListenerTracker_dispose(st, t) ==
    LET st1 == IF st.trackers[t].count > 0
               THEN DomRemoveEventListener([st EXCEPT !.trackers[t].count = 0], t)
               ELSE st
    IN  [st1 EXCEPT !.trackers[t].captureLookups = EmptyMap,
                    !.trackers[t].bubbleLookups = EmptyMap]

\* The tracker's lookups for its own phase.
Lookups(st, t) ==
    IF st.trackers[t].capture THEN st.trackers[t].captureLookups
    ELSE st.trackers[t].bubbleLookups

\* getLookup(target): the state after the call and the record returned.
ListenerTracker_getLookup(st, t, target) ==
    LET lookups == Lookups(st, t)
    IN  IF target \in DOMAIN lookups
        THEN [st |-> st, lookup |-> lookups[target]]
        ELSE LET id == Len(st.lookupRecs) + 1
                 st1 == [st EXCEPT !.lookupRecs = Append(@, EmptyMap)]
             IN  [st |-> IF st.trackers[t].capture
                         THEN [st1 EXCEPT !.trackers[t].captureLookups = (target :> id) @@ @]
                         ELSE [st1 EXCEPT !.trackers[t].bubbleLookups = (target :> id) @@ @],
                  lookup |-> id]

\* lookup[eventName], undefined when the record has no such key.
Entry(rec, eventName) ==
    IF eventName \in DOMAIN rec THEN rec[eventName] ELSE Undefined

\* DelegateSubscription

\* The constructor: the state after it.
DelegateSubscription_new(st, t, lookup, eventName, callback) ==
    LET st1 == ListenerTracker_increment(st, t)
    IN  [st1 EXCEPT !.lookupRecs[lookup] = (eventName :> callback) @@ @]

\* dispose() clearing the entry of every lookup record.
DelegateSubscription_dispose_ClearAll(st, sub) ==
    LET st1 == ListenerTracker_decrement(st, sub.tracker)
    IN  [st1 EXCEPT !.lookupRecs =
             [r \in DOMAIN @ |-> (sub.eventName :> Undefined) @@ @[r]]]

DelegateSubscription_dispose(st, sub) ==
    LET st1 == ListenerTracker_decrement(st, sub.tracker)
    IN  [st1 EXCEPT !.lookupRecs[sub.lookup] = (sub.eventName :> Undefined) @@ @]

\* The listeners that dispose a subscription of the manager: "dispose1" is
\* () => sub1.dispose() for the first subscription created, and so on.
DisposerOf(listener) ==
    CASE listener = "dispose1" -> 1
      [] listener = "dispose2" -> 2
      [] listener = "dispose3" -> 3
      [] OTHER -> 0

\* A listener's call: the state after it, event.cancelBubble as it leaves it,
\* whether it threw, and the subscriptions it called dispose() on. "stop" sets
\* event.cancelBubble, "throw" throws, "f" does nothing.
InvokeListener(st, listener, cancelBubble) ==
    LET quiet == [st |-> st, cancelBubble |-> cancelBubble, thrown |-> FALSE,
                  disposed |-> <<>>]
    IN  CASE listener = "stop" -> [quiet EXCEPT !.cancelBubble = TRUE]
          [] listener = "throw" -> [quiet EXCEPT !.thrown = TRUE]
          [] DisposerOf(listener) > 0 ->
                 [quiet EXCEPT !.st = DelegateSubscription_dispose(
                                          st, subs[DisposerOf(listener)]),
                               !.disposed = <<DisposerOf(listener)>>]
          [] OTHER -> quiet

\* The loop going on after a listener left event.cancelBubble set.
RECURSIVE Walk_NoStop(_, _, _, _, _)
Walk_NoStop(st, t, path, i, cancelBubble) ==
    IF i > Len(path) THEN [st |-> st, log |-> <<>>, thrown |-> FALSE, disposed |-> <<>>]
    ELSE LET lookups == IF st.trackers[t].capture THEN st.trackers[t].captureLookups
                        ELSE st.trackers[t].bubbleLookups
             target == path[i]
             listener == IF target \in DOMAIN lookups
                         THEN LET rec == st.lookupRecs[lookups[target]]
                              IN  IF st.trackers[t].eventName \in DOMAIN rec
                                  THEN rec[st.trackers[t].eventName] ELSE "undefined"
                         ELSE "undefined"
         IN  IF listener = "undefined"
             THEN Walk_NoStop(st, t, path, i + 1, cancelBubble)
             ELSE LET r == InvokeListener(st, listener, cancelBubble)
                      inv == [node |-> target, listener |-> listener,
                              cancelBubble |-> r.cancelBubble]
                      rest == Walk_NoStop(r.st, t, path, i + 1, r.cancelBubble)
                  IN  IF r.thrown
                      THEN [st |-> r.st, log |-> <<inv>>, thrown |-> TRUE,
                            disposed |-> r.disposed]
                      ELSE [rest EXCEPT !.log = <<inv>> \o @,
                                        !.disposed = r.disposed \o @]

\* The loop running on after a listener threw.
RECURSIVE Walk_CatchFault(_, _, _, _, _)
Walk_CatchFault(st, t, path, i, cancelBubble) ==
    IF i > Len(path) THEN [st |-> st, log |-> <<>>, thrown |-> FALSE, disposed |-> <<>>]
    ELSE LET lookups == IF st.trackers[t].capture THEN st.trackers[t].captureLookups
                        ELSE st.trackers[t].bubbleLookups
             target == path[i]
             listener == IF target \in DOMAIN lookups
                         THEN LET rec == st.lookupRecs[lookups[target]]
                              IN  IF st.trackers[t].eventName \in DOMAIN rec
                                  THEN rec[st.trackers[t].eventName] ELSE "undefined"
                         ELSE "undefined"
         IN  IF listener = "undefined"
             THEN Walk_CatchFault(st, t, path, i + 1, cancelBubble)
             ELSE LET r == InvokeListener(st, listener, cancelBubble)
                      inv == [node |-> target, listener |-> listener,
                              cancelBubble |-> r.cancelBubble]
                      rest == Walk_CatchFault(r.st, t, path, i + 1, r.cancelBubble)
                  IN  IF r.cancelBubble
                      THEN [st |-> r.st, log |-> <<inv>>, thrown |-> FALSE,
                            disposed |-> r.disposed]
                      ELSE [rest EXCEPT !.log = <<inv>> \o @,
                                        !.disposed = r.disposed \o @]

\* The loop skipping the nodes whose subscription was disposed when the walk
\* began only: the listeners read before the first call.
RECURSIVE Walk_Snapshot(_, _, _, _, _)
Walk_Snapshot(st, t, path, i, cancelBubble) ==
    IF i > Len(path) THEN [st |-> st, log |-> <<>>, thrown |-> FALSE, disposed |-> <<>>]
    ELSE LET st0 == [trackers |-> trackers, lookupRecs |-> lookupRecs]
             lookups == IF st0.trackers[t].capture THEN st0.trackers[t].captureLookups
                        ELSE st0.trackers[t].bubbleLookups
             target == path[i]
             listener == IF target \in DOMAIN lookups
                         THEN LET rec == st0.lookupRecs[lookups[target]]
                              IN  IF st0.trackers[t].eventName \in DOMAIN rec
                                  THEN rec[st0.trackers[t].eventName] ELSE "undefined"
                         ELSE "undefined"
         IN  IF listener = "undefined"
             THEN Walk_Snapshot(st, t, path, i + 1, cancelBubble)
             ELSE LET r == InvokeListener(st, listener, cancelBubble)
                      inv == [node |-> target, listener |-> listener,
                              cancelBubble |-> r.cancelBubble]
                      rest == Walk_Snapshot(r.st, t, path, i + 1, r.cancelBubble)
                  IN  IF r.thrown \/ r.cancelBubble
                      THEN [st |-> r.st, log |-> <<inv>>, thrown |-> r.thrown,
                            disposed |-> r.disposed]
                      ELSE [rest EXCEPT !.log = <<inv>> \o @,
                                        !.disposed = r.disposed \o @]

\* The loop of handleEvent from path[i] on: the state it leaves, the
\* invocations made (each with the node, the listener and event.cancelBubble
\* as the listener left it), whether a listener threw out of the loop, and the
\* subscriptions the listeners called dispose() on.
RECURSIVE Walk(_, _, _, _, _)
Walk(st, t, path, i, cancelBubble) ==
    IF i > Len(path) THEN [st |-> st, log |-> <<>>, thrown |-> FALSE, disposed |-> <<>>]
    ELSE LET lookups == Lookups(st, t)
             target == path[i]
         IN  IF target \notin DOMAIN lookups
             THEN Walk(st, t, path, i + 1, cancelBubble)
             ELSE LET listener == Entry(st.lookupRecs[lookups[target]],
                                        st.trackers[t].eventName)
                  IN  IF listener = Undefined
                      THEN Walk(st, t, path, i + 1, cancelBubble)
                      ELSE LET r == InvokeListener(st, listener, cancelBubble)
                               inv == [node |-> target, listener |-> listener,
                                       cancelBubble |-> r.cancelBubble]
                               rest == Walk(r.st, t, path, i + 1, r.cancelBubble)
                           IN  IF r.thrown \/ r.cancelBubble
                               THEN [st |-> r.st, log |-> <<inv>>,
                                     thrown |-> r.thrown, disposed |-> r.disposed]
                               ELSE [rest EXCEPT !.log = <<inv>> \o @,
                                                 !.disposed = r.disposed \o @]

\* The path never reversed, and always reversed.
WalkPath_NeverReversed(st, t, path) == path
WalkPath_AlwaysReversed(st, t, path) == reverse(path)

\* The order handleEvent walks event.composedPath() in.
WalkPath(st, t, path) ==
    IF st.trackers[t].capture THEN reverse(path) ELSE path

\* handleEvent going through every target of the tracker, on the path or not.
HandleEvent_EveryTarget(st, t, path, cancelBubble) ==
    Walk(st, t, WalkPath(st, t, <<"T", "B", "R", "doc">>), 1, cancelBubble)

ListenerTracker_handleEvent(st, t, path, cancelBubble) ==
    Walk(st, t, WalkPath(st, t, path), 1, cancelBubble)

----------------------------------------------------------------------------
\* The calls.

\* The latest call was no dispatch.
NoDispatch ==
    [op |-> "none", tracker |-> 0, path |-> <<>>, cancelBubble |-> FALSE, log |-> <<>>,
     thrown |-> FALSE, disposed |-> <<>>]

EMInit ==
    /\ trackerMaps = EmptyMap
    /\ trackers = <<>>
    /\ lookupRecs = <<>>
    /\ subs = <<>>
    /\ native = {}
    /\ nativeCalls = <<>>
    /\ hist = <<>>
    /\ last = NoDispatch

EventManager_addEventListener(publisher, target, eventName, listener, arg) ==
    /\ Len(subs) < MaxSubs
    /\ LET maps1 == IF eventName \in DOMAIN trackerMaps THEN trackerMaps
                    ELSE (eventName :> EmptyMap) @@ trackerMaps
           fresh == publisher \notin DOMAIN maps1[eventName]
           t == IF fresh THEN Len(trackers) + 1 ELSE maps1[eventName][publisher]
           st0 == IF fresh
                  THEN [St EXCEPT !.trackers = Append(@, NewTracker(publisher, eventName, arg)),
                                  !.nativeCalls = Append(@, [add |-> 0, remove |-> 0])]
                  ELSE St
           got == ListenerTracker_getLookup(st0, t, target)
       IN  /\ trackerMaps' = IF fresh
                             THEN [maps1 EXCEPT ![eventName] = (publisher :> t) @@ @]
                             ELSE maps1
           /\ Commit(DelegateSubscription_new(got.st, t, got.lookup, eventName, listener))
           /\ subs' = Append(subs, [tracker |-> t, lookup |-> got.lookup,
                                    eventName |-> eventName])
           /\ hist' = Append(hist, [publisher |-> publisher, target |-> target,
                                    listener |-> listener,
                                    capture |-> OptionsCapture(arg),
                                    disposeCalls |-> 0])
           /\ last' = NoDispatch

\* s.dispose(), for a subscription dispose() was called on less than max times.
SubscriptionDispose(s, max) ==
    /\ hist[s].disposeCalls < max
    /\ Commit(DelegateSubscription_dispose(St, subs[s]))
    /\ hist' = [hist EXCEPT ![s].disposeCalls = @ + 1]
    /\ last' = NoDispatch
    /\ UNCHANGED <<trackerMaps, subs>>

\* tracker.dispose() for every tracker in ts, one after the other.
RECURSIVE DisposeAll(_, _)
DisposeAll(st, ts) ==
    IF ts = {} THEN st
    ELSE LET t == CHOOSE x \in ts : TRUE
         IN  DisposeAll(ListenerTracker_dispose(st, t), ts \ {t})

\* The trackers the manager holds, over every event name.
Tracked ==
    UNION {{trackerMaps[e][p] : p \in DOMAIN trackerMaps[e]} : e \in DOMAIN trackerMaps}

EventManager_dispose ==
    /\ Commit(DisposeAll(St, Tracked))
    /\ trackerMaps' = [e \in DOMAIN trackerMaps |-> EmptyMap]
    /\ last' = NoDispatch
    /\ UNCHANGED <<subs, hist>>

\* The dispose() calls of the listeners of a walk, counted.
RECURSIVE CountDisposals(_, _)
CountDisposals(h, disposed) ==
    IF disposed = <<>> THEN h
    ELSE CountDisposals([h EXCEPT ![Head(disposed)].disposeCalls = @ + 1],
                        Tail(disposed))

\* The host dispatches an event of the tracker's type from a target below the
\* publisher, with cancelBubble as earlier listeners of the host left it, and
\* calls the attached handleEvent.
NativeDispatch(t, target, cancelBubble) ==
    /\ NativeEntry(St, t) \in native
    /\ \E i \in 1..Len(composedPath(target)) :
           composedPath(target)[i] = trackers[t].publisher
    /\ \E r \in {ListenerTracker_handleEvent(St, t, composedPath(target),
                                              cancelBubble)} :
           LET h == CountDisposals(hist, r.disposed)
           IN  /\ \A s \in 1..Len(h) : h[s].disposeCalls <= MaxDisposeCalls
               /\ Commit(r.st)
               /\ hist' = h
               /\ last' = [op |-> "handleEvent", tracker |-> t,
                           path |-> composedPath(target),
                           cancelBubble |-> cancelBubble, log |-> r.log,
                           thrown |-> r.thrown, disposed |-> r.disposed]
    /\ UNCHANGED <<trackerMaps, subs>>

\* Another part's variables as its constructor leaves them.
SlotIdle ==
    /\ slot = [outerScope |-> "null", hostScope |-> "null", hasView |-> TRUE]
    /\ view = [state |-> "inactive", bindingScope |-> "none", hostScope |-> "none"]
    /\ boundParent = "null"

ProjInit ==
    /\ projectionMap = EmptyMap
    /\ everRegistered = {}

\* An EventSubscriber for no event, never subscribed.
ESubIdle ==
    /\ esub = [events |-> <<>>, target |-> "null", handler |-> "null"]
    /\ domListeners = {}

\* No scope.
NoScope == [parent |-> "none", bindingContext |-> "none"]

\* With's constructor: value is null, $scope is not assigned yet, and the
\* child view factory.create() returned is not bound.
WithInit ==
    /\ withAttr = [isBound |-> FALSE, scope |-> "undefined", value |-> "null"]
    /\ child = [isBound |-> FALSE, scope |-> NoScope, flags |-> "none"]

Init == EMInit /\ SlotIdle /\ ProjInit /\ ESubIdle /\ WithInit

\* The calls on the manager and its subscriptions, over every publisher and
\* event name; the listener's identity plays no part in them.
Next ==
    \/ /\ \E publisher \in Publishers, target \in Targets, eventName \in EventNames,
             arg \in OptionArgs :
              EventManager_addEventListener(publisher, target, eventName, "f", arg)
       /\ UNCHANGED otherVars
    \/ /\ \E s \in 1..Len(subs) : SubscriptionDispose(s, MaxDisposeCalls)
       /\ UNCHANGED otherVars
    \/ /\ EventManager_dispose
       /\ UNCHANGED otherVars

Spec == Init /\ [][Next]_vars

\* The same calls for click listeners delegated on doc, each subscription
\* disposed at most once, and the host dispatching click events.
NextDispatch ==
    \/ /\ \E target \in Targets, listener \in Listeners, arg \in OptionArgs :
              EventManager_addEventListener("doc", target, "click", listener, arg)
       /\ UNCHANGED otherVars
    \/ /\ \E s \in 1..Len(subs) : SubscriptionDispose(s, 1)
       /\ UNCHANGED otherVars
    \/ /\ EventManager_dispose
       /\ UNCHANGED otherVars
    \/ /\ \E t \in 1..Len(trackers), target \in Targets, cancelBubble \in BOOLEAN :
              NativeDispatch(t, target, cancelBubble)
       /\ UNCHANGED otherVars

SpecDispatch == Init /\ [][NextDispatch]_vars

----------------------------------------------------------------------------
\* Vocabulary of the properties.

SubIds == 1..Len(subs)
TrackerIds == 1..Len(trackers)

\* The tracker's native listener is on its publisher.
Attached(t) == NativeEntry(St, t) \in native

\* The manager has not dropped the subscription's tracker.
Managed(s) == subs[s].tracker \in Tracked

\* Every subscription so far came from the same publisher, event name and
\* options with pairwise distinct targets, no manager dispose() came between
\* them and none was disposed twice.
SameIdentityCalls ==
    /\ Len(subs) >= 1
    /\ \A s \in SubIds :
           /\ Managed(s)
           /\ hist[s].disposeCalls <= 1
           /\ hist[s].publisher = hist[1].publisher
           /\ subs[s].eventName = subs[1].eventName
           /\ hist[s].capture = hist[1].capture
    /\ \A s1, s2 \in SubIds : s1 # s2 => hist[s1].target # hist[s2].target

\* C1: N calls of addEventListener with one publisher, event name and options
\* and distinct targets share one tracker whose native listener was attached
\* by a single publisher.addEventListener call; the count is the number of
\* subscriptions not yet disposed, and once each was disposed exactly once
\* the count is 0 and the native listener is detached.
C1_SharedNativeListener ==
    SameIdentityCalls =>
        LET t == subs[1].tracker
            live == {s \in SubIds : hist[s].disposeCalls = 0}
        IN  /\ \A s \in SubIds : subs[s].tracker = t
            /\ trackers[t].count = Cardinality(live)
            /\ live = SubIds =>
                   /\ native = {NativeEntry(St, t)}
                   /\ nativeCalls[t].add = 1
                   /\ nativeCalls[t].remove = 0
            /\ live = {} =>
                   /\ trackers[t].count = 0
                   /\ native = {}

C1_Witness ==
    /\ SameIdentityCalls
    /\ Len(subs) >= 2
    /\ \A s \in SubIds : hist[s].disposeCalls = 1
    /\ nativeCalls[subs[1].tracker].add = 1
    /\ nativeCalls[subs[1].tracker].remove = 1

\* C2: dispose() of a subscription is idempotent: a dispose() call on a
\* subscription already disposed leaves every tracker (its count), every
\* lookup record and the native listeners as they were.
C2_DisposeIdempotent ==
    [][\A s \in SubIds :
           (hist[s].disposeCalls >= 1 /\ hist'[s].disposeCalls > hist[s].disposeCalls)
               => UNCHANGED <<trackers, lookupRecs, native>>]_vars

\* C3: the reference count of every tracker is never negative, whatever the
\* interleaving of addEventListener, subscription dispose() and manager
\* dispose().
C3_CountNonNegative == \A t \in TrackerIds : trackers[t].count >= 0

\* C4: a tracker's native listener is attached iff its count is positive,
\* and it is attached at most once: the attaching calls exceed the detaching
\* calls by one while it is attached and by none otherwise.
C4_AttachedIffCounted ==
    \A t \in TrackerIds :
        /\ Attached(t) <=> trackers[t].count > 0
        /\ Cardinality({e \in native : e.callback = t}) <= 1
        /\ nativeCalls[t].add - nativeCalls[t].remove
               = IF trackers[t].count > 0 THEN 1 ELSE 0

C4_Witness ==
    \E t \in TrackerIds :
        /\ trackers[t].count > 0
        /\ Attached(t)
        /\ nativeCalls[t].add = 2
        /\ nativeCalls[t].remove = 1

\* C5: trackers are identified by publisher, event name and phase: every
\* registration the manager holds is served by a tracker of the phase it asked
\* for, so a bubble and a capture registration of one publisher and event
\* name have distinct trackers.
C5_TrackerPerPhase ==
    /\ \A s \in SubIds :
           Managed(s) => trackers[subs[s].tracker].capture = hist[s].capture
    /\ \A s1, s2 \in SubIds :
           (/\ Managed(s1) /\ Managed(s2)
            /\ hist[s1].publisher = hist[s2].publisher
            /\ subs[s1].eventName = subs[s2].eventName
            /\ hist[s1].capture # hist[s2].capture)
               => subs[s1].tracker # subs[s2].tracker

\* C9: a tracker the manager has disposed and dropped has no native listener
\* attached, also after a later dispose() of one of its subscriptions: every
\* native listener belongs to the tracker the manager holds for its event
\* name and publisher, and there is none when the manager holds no tracker.
C9_NoListenerAfterManagerDispose ==
    /\ \A t \in TrackerIds : t \notin Tracked => ~Attached(t)
    /\ \A e \in native :
           /\ e.type \in DOMAIN trackerMaps
           /\ e.publisher \in DOMAIN trackerMaps[e.type]
           /\ trackerMaps[e.type][e.publisher] = e.callback
    /\ Tracked = {} => native = {}

\* The manager disposed a tracker whose subscription was live, and the
\* subscription was disposed afterwards.
C9_Witness ==
    \E s \in SubIds :
        /\ ~Managed(s)
        /\ hist[s].disposeCalls = 1
        /\ trackers[subs[s].tracker].count = -1
        /\ nativeCalls[subs[s].tracker].remove = 1
        /\ native = {}

----------------------------------------------------------------------------
\* Properties of a dispatch. After a dispatch the state is the one handleEvent
\* ran in, and last holds the event and the invocations made.

Dispatched == last.op = "handleEvent"

\* The position of node n on path p, 0 when it is not on it.
Pos(p, n) == IF \E k \in 1..Len(p) : p[k] = n
             THEN CHOOSE k \in 1..Len(p) : p[k] = n ELSE 0

OnPath(p) == {p[k] : k \in 1..Len(p)}

\* The listener tracker t holds for node n under its event name.
Registered(t, n) ==
    IF n \in DOMAIN Lookups(St, t)
    THEN Entry(lookupRecs[Lookups(St, t)[n]], trackers[t].eventName)
    ELSE Undefined

Invoked == {last.log[i].node : i \in 1..Len(last.log)}

\* No invoked listener left event.cancelBubble set.
RanToEnd == \A i \in 1..Len(last.log) : ~last.log[i].cancelBubble

\* C6: a bubble-phase tracker invokes listeners in the order of
\* event.composedPath(): the listener of a node before the listeners of the
\* node's ancestors, so T's before R's.
C6_BubbleOrder ==
    (Dispatched /\ ~trackers[last.tracker].capture) =>
        \A i, j \in 1..Len(last.log) :
            i < j => /\ Pos(last.path, last.log[i].node) > 0
                     /\ Pos(last.path, last.log[i].node) < Pos(last.path, last.log[j].node)

C6_Witness ==
    /\ Dispatched
    /\ ~trackers[last.tracker].capture
    /\ Len(last.log) = 2
    /\ last.log[1].node = "T"
    /\ last.log[2].node = "R"

\* C7: once an invoked listener leaves event.cancelBubble set no later
\* listener is invoked; a node without a lookup record or without an entry
\* never ends the walk, so a walk no listener cancelled reaches every listener
\* on the path; and the flag is read only after an invocation, so an event
\* that arrives with the flag set still has its first listener invoked.
C7_CancelBubblePrecedence ==
    Dispatched =>
        /\ \A i \in 1..Len(last.log) : i < Len(last.log) => ~last.log[i].cancelBubble
        /\ RanToEnd =>
               \A n \in OnPath(last.path) :
                   Registered(last.tracker, n) # Undefined => n \in Invoked
        /\ (\E n \in OnPath(last.path) : Registered(last.tracker, n) # Undefined)
               => Len(last.log) >= 1
        /\ (last.cancelBubble /\ last.log # <<>>) => Len(last.log) = 1

\* A capture walk over doc, R, T: doc has no lookup record and is passed over,
\* R's listener cancels the bubble, and T's listener, later in the walk, is
\* not invoked.
C7_Witness ==
    /\ Dispatched
    /\ ~last.cancelBubble
    /\ trackers[last.tracker].capture
    /\ last.path = <<"T", "R", "doc">>
    /\ "doc" \notin DOMAIN Lookups(St, last.tracker)
    /\ Len(last.log) = 1
    /\ last.log[1].node = "R"
    /\ last.log[1].cancelBubble
    /\ Registered(last.tracker, "T") # Undefined

\* C8: a capture-phase tracker invokes listeners in the reverse of
\* event.composedPath(): the listener of a node after the listeners of the
\* node's ancestors, so R's before T's.
C8_CaptureOrder ==
    (Dispatched /\ trackers[last.tracker].capture) =>
        \A i, j \in 1..Len(last.log) :
            i < j => /\ Pos(last.path, last.log[j].node) > 0
                     /\ Pos(last.path, last.log[i].node) > Pos(last.path, last.log[j].node)

C8_Witness ==
    /\ Dispatched
    /\ trackers[last.tracker].capture
    /\ Len(last.log) = 2
    /\ last.log[1].node = "R"
    /\ last.log[2].node = "T"

\* Every invocation is of the listener registered on a node of the path, and
\* no node is invoked twice.
OnlyOnPathOnce ==
    /\ \A i \in 1..Len(last.log) :
           /\ last.log[i].node \in OnPath(last.path)
           /\ last.log[i].listener = Registered(last.tracker, last.log[i].node)
           /\ last.log[i].listener # Undefined
    /\ \A i, j \in 1..Len(last.log) : last.log[i].node = last.log[j].node => i = j

----------------------------------------------------------------------------
\* AuSlot and its view.

\* Scopes: S is the scope projected content was authored in, H another scope.
Scopes == {"S", "H"}
\* factory.projectionScope: absent (null or undefined) or a captured scope.
ProjectionScopes == {"null", "undefined"} \cup Scopes
\* $controller.scope.parentScope when binding() is called.
ParentScopes == {"null"} \cup Scopes

\* a ?? b
Coalesce(a, b) == IF a \in {"null", "undefined"} THEN b ELSE a

\* The scope chosen the other way round: the host scope unless it is absent.
BindingScope_HostFirst(sl) == Coalesce(sl.hostScope, sl.outerScope)

\* The binding scope attaching() passes to view.activate.
BindingScope(sl) == Coalesce(sl.outerScope, sl.hostScope)

\* The constructor, for a factory with the given projectionScope.
SlotInit ==
    /\ \E ps \in ProjectionScopes :
           slot = [outerScope |-> ps, hostScope |-> "null", hasView |-> TRUE]
    /\ view = [state |-> "inactive", bindingScope |-> "none", hostScope |-> "none"]
    /\ boundParent = "null"

AuSlot_binding(parentScope) ==
    /\ slot' = [slot EXCEPT !.hostScope = parentScope]
    /\ boundParent' = parentScope
    /\ UNCHANGED view

\* view.activate(initiator, $controller, flags, bindingScope, hostScope): the
\* view starts activating with these scopes; activation completes later.
View_activate(v, bindingScope, hostScope) ==
    [state |-> "activating", bindingScope |-> bindingScope, hostScope |-> hostScope]

\* view.deactivate(initiator, $controller, flags): the view starts
\* deactivating, whatever state it is in.
View_deactivate(v) == [v EXCEPT !.state = "deactivating"]

AuSlot_attaching ==
    /\ slot.hasView
    /\ view' = View_activate(view, BindingScope(slot), slot.hostScope)
    /\ UNCHANGED <<slot, boundParent>>

AuSlot_detaching ==
    /\ slot.hasView
    /\ view' = View_deactivate(view)
    /\ UNCHANGED <<slot, boundParent>>

\* dispose(): view.dispose() and this.view = undefined.
AuSlot_dispose ==
    /\ slot.hasView
    /\ slot' = [slot EXCEPT !.hasView = FALSE]
    /\ view' = [view EXCEPT !.state = "disposed"]
    /\ UNCHANGED boundParent

\* The activation the view started completes.
ActivationCompletes ==
    /\ view.state = "activating"
    /\ view' = [view EXCEPT !.state = "active"]
    /\ UNCHANGED <<slot, boundParent>>

\* The deactivation the view started completes.
DeactivationCompletes ==
    /\ view.state = "deactivating"
    /\ view' = [view EXCEPT !.state = "inactive"]
    /\ UNCHANGED <<slot, boundParent>>

NextSlot ==
    \/ /\ \E parentScope \in ParentScopes : AuSlot_binding(parentScope)
       /\ UNCHANGED <<emVars, projVars, esubVars, withVars>>
    \/ /\ AuSlot_attaching
       /\ UNCHANGED <<emVars, projVars, esubVars, withVars>>
    \/ /\ AuSlot_detaching
       /\ UNCHANGED <<emVars, projVars, esubVars, withVars>>
    \/ /\ AuSlot_dispose
       /\ UNCHANGED <<emVars, projVars, esubVars, withVars>>
    \/ /\ ActivationCompletes
       /\ UNCHANGED <<emVars, projVars, esubVars, withVars>>
    \/ /\ DeactivationCompletes
       /\ UNCHANGED <<emVars, projVars, esubVars, withVars>>

InitSlot == EMInit /\ SlotInit /\ ProjInit /\ ESubIdle /\ WithInit

SpecSlot == InitSlot /\ [][NextSlot]_vars

\* C11: the binding scope passed to view.activate is the projection scope the
\* factory captured whenever there is one, also when the host's parent scope
\* differs from it, and the host scope recorded by the latest binding() when
\* there is none; the hostScope argument is always that host scope.
C11_ScopeResolution ==
    [][AuSlot_attaching =>
           /\ view'.hostScope = boundParent
           /\ slot.outerScope \in Scopes => view'.bindingScope = slot.outerScope
           /\ slot.outerScope \in {"null", "undefined"} => view'.bindingScope = boundParent]_vars

\* Activated with captured scope S inside a host whose parent scope is H.
C11_Witness ==
    /\ view.state = "activating"
    /\ slot.outerScope = "S"
    /\ boundParent = "H"
    /\ view.bindingScope = "S"
    /\ view.hostScope = "H"

----------------------------------------------------------------------------
\* ProjectionProvider

Instructions == {"i1", "i2", "i3"}
\* The named projected contents registered for one instruction.
SlotProjections == {"p1", "p2"}

\* The maps registerProjections is called with: instruction -> projections.
ProjectionMaps ==
    UNION {[is -> SlotProjections] : is \in SUBSET Instructions}

RegisteredProjections(scope, projections) ==
    [scope |-> scope, projections |-> projections]

\* No RegisteredProjections: null, or undefined.
Absent(kind) == [absent |-> kind]

\* registerProjections keeping the entry an instruction already has.
RegisterProjections_KeepFirst(pm, projections, scope) ==
    [i \in DOMAIN pm \cup DOMAIN projections |->
        IF i \in DOMAIN pm THEN pm[i]
        ELSE RegisteredProjections(scope, projections[i])]

\* registerProjections(projections, scope): the WeakMap after the call.
ProjectionProvider_registerProjections(pm, projections, scope) ==
    [i \in DOMAIN pm \cup DOMAIN projections |->
        IF i \in DOMAIN projections
        THEN RegisteredProjections(scope, projections[i])
        ELSE pm[i]]

\* getProjectionFor returning what projectionMap.get gives.
GetProjectionFor_Raw(pm, instruction) ==
    IF instruction \in DOMAIN pm THEN pm[instruction] ELSE Absent("undefined")

\* getProjectionFor(instruction): projectionMap.get(instruction) ?? null
ProjectionProvider_getProjectionFor(pm, instruction) ==
    IF instruction \in DOMAIN pm THEN pm[instruction] ELSE Absent("null")

RegisterProjections(projections, scope) ==
    /\ projectionMap' = ProjectionProvider_registerProjections(projectionMap,
                                                               projections, scope)
    /\ everRegistered' = everRegistered \cup DOMAIN projections

NextProj ==
    /\ \E projections \in ProjectionMaps, scope \in Scopes :
           RegisterProjections(projections, scope)
    /\ UNCHANGED <<emVars, slotVars, esubVars, withVars>>

SpecProj == Init /\ [][NextProj]_vars

\* C12: getProjectionFor of an instruction no registerProjections call ever
\* included returns null, whatever was registered for other instructions.
C12_UnregisteredIsNull ==
    \A i \in Instructions \ everRegistered :
        ProjectionProvider_getProjectionFor(projectionMap, i) = Absent("null")

\* Two instructions are registered and the third is asked for.
C12_Witness ==
    /\ Cardinality(everRegistered) = 2
    /\ \E i \in Instructions \ everRegistered :
           ProjectionProvider_getProjectionFor(projectionMap, i) = Absent("null")

\* C13: after registerProjections(map, scope), getProjectionFor of every key
\* of map returns this scope and the key's value in map, replacing an earlier
\* registration, and returns what it returned before for every other
\* instruction.
C13_RegistrationRoundTrip ==
    [][\A projections \in ProjectionMaps, scope \in Scopes :
           RegisterProjections(projections, scope) =>
               \A i \in Instructions :
                   ProjectionProvider_getProjectionFor(projectionMap', i)
                       = IF i \in DOMAIN projections
                         THEN RegisteredProjections(scope, projections[i])
                         ELSE ProjectionProvider_getProjectionFor(projectionMap, i)]_vars

\* i1 was registered with scope S and p1, then again with scope H and p2,
\* while i2 keeps its registration.
C13_Witness ==
    /\ everRegistered = {"i1", "i2"}
    /\ ProjectionProvider_getProjectionFor(projectionMap, "i1")
           = RegisteredProjections("H", "p2")
    /\ ProjectionProvider_getProjectionFor(projectionMap, "i2")
           = RegisteredProjections("S", "p1")

----------------------------------------------------------------------------
\* EventSubscriber

SubscriberNodes == {"n1", "n2", "n3"}
SubscriberListeners == {"l1", "l2"}
\* The event names a subscriber is constructed for.
EventLists == {<<"input">>, <<"input", "change">>}

\* The constructor.
ESubInit ==
    /\ \E events \in EventLists :
           esub = [events |-> events, target |-> "null", handler |-> "null"]
    /\ domListeners = {}

\* dom.addEventListener(event, listener, node) for events[i], events[i+1], ...
RECURSIVE AddEach(_, _, _, _, _)
AddEach(dl, events, i, listener, node) ==
    IF i > Len(events) THEN dl
    ELSE AddEach(dl \cup {[node |-> node, event |-> events[i], listener |-> listener]},
                 events, i + 1, listener, node)

\* dom.removeEventListener(event, listener, node) for events[i], events[i+1], ...
RECURSIVE RemoveEach(_, _, _, _, _)
RemoveEach(dl, events, i, listener, node) ==
    IF i > Len(events) THEN dl
    ELSE RemoveEach(dl \ {[node |-> node, event |-> events[i], listener |-> listener]},
                    events, i + 1, listener, node)

EventSubscriber_subscribe(node, callbackOrListener) ==
    /\ esub' = [esub EXCEPT !.target = node, !.handler = callbackOrListener]
    /\ domListeners' = AddEach(domListeners, esub.events, 1, callbackOrListener, node)

EventSubscriber_dispose ==
    /\ domListeners' = RemoveEach(domListeners, esub.events, 1, esub.handler, esub.target)
    /\ esub' = [esub EXCEPT !.target = "null", !.handler = "null"]

NextESub ==
    \/ /\ \E node \in SubscriberNodes, listener \in SubscriberListeners :
              EventSubscriber_subscribe(node, listener)
       /\ UNCHANGED <<emVars, slotVars, projVars, withVars>>
    \/ /\ EventSubscriber_dispose
       /\ UNCHANGED <<emVars, slotVars, projVars, withVars>>

InitESub == EMInit /\ SlotIdle /\ ProjInit /\ ESubInit /\ WithInit

SpecESub == InitESub /\ [][NextESub]_vars

\* C14: while subscribed, the listener is attached on the node for every
\* configured event name; after dispose() no listener attached through the
\* subscriber remains on any node and the stored node and handler are
\* cleared, whatever subscribe calls came before.
C14_DisposeRemovesAll ==
    /\ esub.target # "null" =>
           \A i \in 1..Len(esub.events) :
               [node |-> esub.target, event |-> esub.events[i],
                listener |-> esub.handler] \in domListeners
    /\ esub.target = "null" =>
           /\ esub.handler = "null"
           /\ domListeners = {}

----------------------------------------------------------------------------
\* Listeners that throw.

FaultListeners == {"f", "throw"}

\* Click listeners delegated on doc, some of them throwing, each subscription
\* disposed at most once, and the host dispatching click events.
NextFault ==
    \/ /\ \E target \in Targets, listener \in FaultListeners, arg \in OptionArgs :
              EventManager_addEventListener("doc", target, "click", listener, arg)
       /\ UNCHANGED otherVars
    \/ /\ \E s \in 1..Len(subs) : SubscriptionDispose(s, 1)
       /\ UNCHANGED otherVars
    \/ /\ EventManager_dispose
       /\ UNCHANGED otherVars
    \/ /\ \E t \in 1..Len(trackers), target \in Targets, cancelBubble \in BOOLEAN :
              NativeDispatch(t, target, cancelBubble)
       /\ UNCHANGED otherVars

SpecFault == Init /\ [][NextFault]_vars

\* C15: a listener that throws during handleEvent is not caught: the error
\* leaves handleEvent, the throwing listener is the last one invoked in the
\* walk, and the call leaves every tracker's count and lookup tables, the
\* lookup records and the native listeners as they were.
C15_FaultNotIsolated ==
    [][(/\ last'.op = "handleEvent"
        /\ \E i \in 1..Len(last'.log) : last'.log[i].listener = "throw")
           => /\ last'.thrown
              /\ \A i \in 1..Len(last'.log) :
                     last'.log[i].listener = "throw" => i = Len(last'.log)
              /\ UNCHANGED <<trackers, lookupRecs, native, nativeCalls>>]_vars

\* A bubble walk from T where T's listener throws and R's listener, live and
\* later on the path, is not invoked.
C15_Witness ==
    /\ Dispatched
    /\ last.thrown
    /\ ~last.cancelBubble
    /\ last.path = <<"T", "R", "doc">>
    /\ Len(last.log) = 1
    /\ last.log[1].node = "T"
    /\ Registered(last.tracker, "R") = "f"
    /\ Attached(last.tracker)
    /\ trackers[last.tracker].count = 2

----------------------------------------------------------------------------
\* The AuSlot's view lifecycle.

\* C16: view.deactivate is never issued on the AuSlot's view while a
\* view.activate on it is still pending: the view never goes from activating
\* to deactivating, whatever the sequence of attaching() and detaching() calls.
C16_NoDeactivateWhileActivating ==
    [][~(view.state = "activating" /\ view'.state = "deactivating")]_vars

----------------------------------------------------------------------------
\* Forced disposal.

\* C17: EventManager.dispose() disposes every tracker it holds:
\* tracker.dispose() calls removeEventListener if and only if count > 0, leaves
\* count at 0, both lookup tables empty and the native listener detached; a
\* second dispose() of the tracker changes nothing, and the manager's tracker
\* maps are left empty, so that a second EventManager.dispose() changes
\* nothing either.
C17_ForcedDisposalTotal ==
    [][EventManager_dispose =>
           /\ \A t \in Tracked :
                  /\ trackers'[t].count = 0
                  /\ trackers'[t].captureLookups = EmptyMap
                  /\ trackers'[t].bubbleLookups = EmptyMap
                  /\ NativeEntry(St, t) \notin native'
                  /\ nativeCalls'[t].remove =
                         nativeCalls[t].remove + (IF trackers[t].count > 0 THEN 1 ELSE 0)
                  /\ LET once == ListenerTracker_dispose(St, t)
                     IN  ListenerTracker_dispose(once, t) = once
           /\ \A e \in DOMAIN trackerMaps' : trackerMaps'[e] = EmptyMap]_vars

----------------------------------------------------------------------------
\* A subscription and the others.

\* Subscription s was not disposed, the manager holds its tracker, the
\* dispatch just made went through that tracker and s's target is on its path.
LiveOnPath(s) ==
    /\ hist[s].disposeCalls = 0
    /\ Managed(s)
    /\ subs[s].tracker = last.tracker
    /\ hist[s].target \in OnPath(last.path)

\* The dispatch just made invoked s's listener at s's target.
InvokedListenerOf(s) ==
    \E i \in 1..Len(last.log) :
        /\ last.log[i].node = hist[s].target
        /\ last.log[i].listener = hist[s].listener

\* No other subscription was created on s's lookup record.
Unshared(s) == \A s2 \in SubIds \ {s} : subs[s2].lookup # subs[s].lookup

\* C18 as stated: a dispatch no listener cancelled invokes the listener of
\* every live subscription whose target is on the path, whatever other
\* subscriptions were created or disposed, on the same target or not.
C18_EveryLiveListenerInvoked ==
    (Dispatched /\ RanToEnd) =>
        \A s \in SubIds : LiveOnPath(s) => InvokedListenerOf(s)

\* C18 amended: a handleEvent call invokes the listener of every live
\* subscription whose target is on the path and whose lookup record no other
\* subscription was created on, unless a listener invoked earlier in the walk
\* left event.cancelBubble set or threw; creating and disposing subscriptions
\* on other targets takes no such listener away.
C18_UnsharedListenerInvoked ==
    Dispatched =>
        \A s \in SubIds :
            (LiveOnPath(s) /\ Unshared(s)) =>
                \/ InvokedListenerOf(s)
                \/ /\ last.log # <<>>
                   /\ last.log[Len(last.log)].node # hist[s].target
                   /\ \/ last.log[Len(last.log)].cancelBubble
                      \/ last.thrown

\* Two subscriptions of one tracker on T and on R; the one on R was disposed,
\* and a dispatch from T still invokes the listener of the one on T.
C18_Witness ==
    /\ Dispatched
    /\ RanToEnd
    /\ \E s1, s2 \in SubIds :
           /\ LiveOnPath(s1)
           /\ Unshared(s1)
           /\ hist[s1].target = "T"
           /\ subs[s2].tracker = subs[s1].tracker
           /\ hist[s2].target = "R"
           /\ hist[s2].disposeCalls = 1
           /\ InvokedListenerOf(s1)
           /\ Len(last.log) = 1

----------------------------------------------------------------------------
\* Listeners that dispose subscriptions during the walk.

\* The listeners () => sub.dispose() a caller can pass when n subscriptions
\* exist: for one of them, or for the subscription the call is about to return.
Disposers(n) ==
    {l \in {"dispose1", "dispose2", "dispose3"} : DisposerOf(l) <= n + 1}

\* The targets of the disposing listeners: T and its parent R.
ReentrantTargets == {"T", "R"}

\* Click listeners delegated on doc for T and R, some of them disposing a
\* subscription, each subscription disposed at most once from outside a
\* dispatch, and the host dispatching click events from T, B and R.
NextReentrant ==
    \/ /\ \E target \in ReentrantTargets, listener \in {"f"} \cup Disposers(Len(subs)),
             arg \in OptionArgs :
              EventManager_addEventListener("doc", target, "click", listener, arg)
       /\ UNCHANGED otherVars
    \/ /\ \E s \in 1..Len(subs) : SubscriptionDispose(s, 1)
       /\ UNCHANGED otherVars
    \/ /\ EventManager_dispose
       /\ UNCHANGED otherVars
    \/ /\ \E t \in 1..Len(trackers), target \in Targets, cancelBubble \in BOOLEAN :
              NativeDispatch(t, target, cancelBubble)
       /\ UNCHANGED otherVars

SpecReentrant == Init /\ [][NextReentrant]_vars

\* C19: when a listener invoked in a walk disposes a subscription of the
\* walk's tracker, no listener is invoked at that subscription's target later
\* in the walk; and when the walk's listeners bring the count of the tracker to
\* 0, no fault leaves handleEvent, the native listener is detached, and the
\* walk, unless a listener cancelled it, has gone on to every node of the path
\* that still holds a listener.
C19_ReentrantDispose ==
    Dispatched =>
        /\ \A i \in 1..Len(last.log) :
               LET k == DisposerOf(last.log[i].listener)
               IN  (k > 0 /\ subs[k].tracker = last.tracker) =>
                       \A j \in 1..Len(last.log) :
                           j > i => last.log[j].node # hist[k].target
        /\ (last.disposed # <<>> /\ trackers[last.tracker].count = 0) =>
               /\ ~last.thrown
               /\ ~Attached(last.tracker)
               /\ RanToEnd =>
                      \A n \in OnPath(last.path) :
                          Registered(last.tracker, n) # Undefined => n \in Invoked

\* A bubble walk from T: T's listener disposes the subscription on R, and R's
\* listener, there when the walk began, is not invoked.
C19_Witness ==
    /\ Dispatched
    /\ ~last.cancelBubble
    /\ ~trackers[last.tracker].capture
    /\ last.path = <<"T", "R", "doc">>
    /\ Len(last.log) = 1
    /\ last.log[1].node = "T"
    /\ last.log[1].listener = "dispose1"
    /\ hist[1].target = "R"
    /\ hist[1].disposeCalls = 1
    /\ subs[1].tracker = last.tracker
    /\ trackers[last.tracker].count = 1
    /\ Attached(last.tracker)

----------------------------------------------------------------------------
\* The With template controller.

\* The scopes With is bound in, the values bound to it, the flags of the
\* lifecycle calls.
WithScopes == {"S1", "S2", "S3"}
WithValues == {"null", "a", "b", "c"}
LifecycleFlags == {"none", "fromBind", "fromUnbind"}

\* BindingContext.createScopeFromParent(parentScope, bindingContext)
createScopeFromParent(ps, bc) == [parent |-> ps, bindingContext |-> bc]

\* $child.$bind(flags, scope): the view is bound in the scope.
View_bind(v, flags, scope) == [isBound |-> TRUE, scope |-> scope, flags |-> flags]

\* $child.$unbind(flags): the view is not bound.
View_unbind(v, flags) == [isBound |-> FALSE, scope |-> NoScope, flags |-> flags]

With_bindChild(flags) ==
    child' = View_bind(child, flags,
                       createScopeFromParent(withAttr'.scope, withAttr'.value))

\* The attribute is bound in a scope: $scope is assigned and bound(flags) called.
With_bound(flags, scope) ==
    /\ withAttr' = [withAttr EXCEPT !.isBound = TRUE, !.scope = scope]
    /\ With_bindChild(flags)

\* value is assigned and valueChanged() called. Before $scope was first
\* assigned, createScopeFromParent gets an undefined parent scope and either
\* throws, leaving the child alone, or returns a scope.
With_valueChanged(value) ==
    /\ withAttr' = [withAttr EXCEPT !.value = value]
    /\ \/ With_bindChild("callbackOrigin")
       \/ /\ withAttr.scope = "undefined"
          /\ child' = child

\* The attribute is unbound: unbound(flags) is called, $scope stays.
With_unbound(flags) ==
    /\ withAttr' = [withAttr EXCEPT !.isBound = FALSE]
    /\ child' = View_unbind(child, flags)

NextWith ==
    \/ /\ \E flags \in LifecycleFlags, scope \in WithScopes : With_bound(flags, scope)
       /\ UNCHANGED <<emVars, slotVars, projVars, esubVars>>
    \/ /\ \E value \in WithValues : With_valueChanged(value)
       /\ UNCHANGED <<emVars, slotVars, projVars, esubVars>>
    \/ /\ \E flags \in LifecycleFlags : With_unbound(flags)
       /\ UNCHANGED <<emVars, slotVars, projVars, esubVars>>

SpecWith == Init /\ [][NextWith]_vars

\* C20: once With was bound, its child view is bound only while With itself
\* is bound, and then in the scope derived from With's current $scope and
\* value; a valueChanged() after unbound() does not bind the child.
C20_ChildBoundOnlyWhileBound ==
    (child.isBound /\ withAttr.scope # "undefined") =>
        /\ withAttr.isBound
        /\ child.scope = createScopeFromParent(withAttr.scope, withAttr.value)

====
